---------------------------- MODULE Spec2Model ----------------------------
(***************************************************************************)
(* Model of no_llm_framework/client/agent.py: the Agent class and its      *)
(* stream() orchestration loop (directory fetch, decision stream, parsing  *)
(* of the selection block, sequential agent dispatch, answer collection).  *)
(*                                                                         *)
(* Text is modelled as a sequence of tokens.  In a decision text the       *)
(* tokens are                                                              *)
(*    OPEN   the characters ```json\n                                      *)
(*    CLOSE  the characters \n```                                          *)
(*    LB RB COMMA   the JSON punctuation [ ] ,                             *)
(*    atom   the text of one JSON scalar or object, carrying its value     *)
(*    txt    any other prose                                               *)
(* In an agent response the tokens are AO (<Answer>), AC (</Answer>),      *)
(* SP (white space) and X (any other text).                                *)
(***************************************************************************)
EXTENDS Integers, Sequences, FiniteSets, TLC

VARIABLES
    profile,           \* which inputs the environment draws: see DecisionTexts
    agent_urls,        \* self.agent_urls (None, or a list of endpoint urls)
    has_callback,      \* self.token_stream_callback is not None
    pc,                \* position of the stream() generator
    suspended,         \* the generator is suspended at a yield
    round,             \* number of completed iterations of `for _ in range(3)`
    agents_registry,   \* this round's name -> AgentCard mapping
    agent_prompt,      \* this round's rendered directory text
    llm,               \* the decision generator: its chunks not yet read
    response,          \* decision text accumulated in this round
    agents,            \* value returned by extract_agents
    idx,               \* 1-based position of `agent` in the iteration of agents
    agent_response,    \* agent text accumulated for the current selection
    conn,              \* state of the httpx client of send_message_to_an_agent
    event,             \* the event send_message_to_an_agent is handling
    agent_answers,     \* the loop-lifetime list of answers
    err,               \* the exception that ended the run ("" if none)
    output,            \* history: every chunk yielded to the caller
    cb_calls,          \* history: every argument token_stream_callback got
    fetches,           \* history: what every get_agents call did and was answered
    decide_calls,      \* history: the called_agents list of every decide call
    dispatches         \* history: one entry per send_message_to_an_agent call

vars == <<profile, agent_urls, has_callback, pc, suspended, round, agents_registry,
          agent_prompt, llm, response, agents, idx, agent_response, conn, event,
          agent_answers, err, output, cb_calls, fetches, decide_calls,
          dispatches>>

---------------------------------------------------------------------------
(* Bounds of the explored inputs *)

MaxUrls == 2          \* longest agent_urls list
MaxSel == 2           \* longest selection list a decision text carries
MaxDispatch == 4      \* agent calls the decision engine asks for in one run
MaxFragments == 2     \* text fragments all agents together send in one run
MaxRespLen == 4       \* the same, in a run that explores the agent responses
MaxTextLen == 3       \* longest payload-free wide decision text
MaxPayload == 3       \* longest arbitrary payload of a wide decision text

(* The program's constant: `for _ in range(3)` *)
MaxRounds == 3

None == [none |-> TRUE, list |-> <<>>]
UrlList(l) == [none |-> FALSE, list |-> l]
Names == {"a", "b"}

---------------------------------------------------------------------------
(* Tokens and JSON values *)

Tok(t) == [t |-> t]
OPEN == Tok("OPEN")
CLOSE == Tok("CLOSE")
LB == Tok("LB")
RB == Tok("RB")
COMMA == Tok("COMMA")
TXT == Tok("txt")
AO == Tok("AO")
AC == Tok("AC")
SP == Tok("sp")
X == Tok("x")
Atom(v) == [t |-> "atom", v |-> v]

JList(items) == [kind |-> "list", items |-> items]
JObj(d) == [kind |-> "obj", obj |-> d]
JStr == [kind |-> "str"]
JNum == [kind |-> "num"]
JNull == [kind |-> "null"]

Selection(n, p) == JObj([name |-> n, prompt |-> p])
NoPrompt(n) == JObj([name |-> n])
NoName(p) == JObj([prompt |-> p])

---------------------------------------------------------------------------
(* json.loads on a token sequence *)

RECURSIVE ParseValue(_, _)
RECURSIVE ParseItems(_, _, _)

(* The items of a list after its "[" or after a ",": a value, then "," and *)
(* more items, or "]".  acc holds the items decoded so far.                *)
ParseItems(s, i, acc) ==
    LET r == ParseValue(s, i) IN
    IF ~r.ok \/ r.next > Len(s) THEN [ok |-> FALSE]
    ELSE IF s[r.next] = RB
         THEN [ok |-> TRUE, val |-> JList(Append(acc, r.val)), next |-> r.next + 1]
    ELSE IF s[r.next] = COMMA
         THEN ParseItems(s, r.next + 1, Append(acc, r.val))
    ELSE [ok |-> FALSE]

(* One JSON value starting at position i *)
ParseValue(s, i) ==
    IF i > Len(s) THEN [ok |-> FALSE]
    ELSE IF s[i].t = "atom" THEN [ok |-> TRUE, val |-> s[i].v, next |-> i + 1]
    ELSE IF s[i].t = "LB"
         THEN IF i + 1 <= Len(s) /\ s[i + 1] = RB
              THEN [ok |-> TRUE, val |-> JList(<<>>), next |-> i + 2]
              ELSE ParseItems(s, i + 1, <<>>)
    ELSE [ok |-> FALSE]

(* json.loads: one value and nothing after it, else JSONDecodeError *)
JsonLoads(s) ==
    LET r == ParseValue(s, 1) IN
    IF r.ok /\ r.next = Len(s) + 1
    THEN [raised |-> FALSE, val |-> r.val]
    ELSE [raised |-> TRUE]

---------------------------------------------------------------------------
(* re.search(r'```json\n(.*?)\n```', response, re.DOTALL) *)

RECURSIVE LazyClose(_, _)
(* The lazy group grows from position j until a CLOSE follows it *)
LazyClose(s, j) ==
    IF j > Len(s) THEN 0
    ELSE IF s[j] = CLOSE THEN j
    ELSE LazyClose(s, j + 1)

(* SearchBlock taking the last block of the text *)
SearchBlock_Last(s, i) ==
    LET opens == {k \in i..Len(s) : s[k] = OPEN /\ LazyClose(s, k + 1) # 0} IN
    IF opens = {} THEN [found |-> FALSE]
    ELSE LET k == CHOOSE k \in opens : \A h \in opens : h <= k
         IN [found |-> TRUE, group |-> SubSeq(s, k + 1, LazyClose(s, k + 1) - 1)]

RECURSIVE SearchBlock(_, _)
(* The leftmost start position i at which the pattern matches *)
SearchBlock(s, i) ==
    IF i > Len(s) THEN [found |-> FALSE]
    ELSE IF s[i] = OPEN /\ LazyClose(s, i + 1) # 0
         THEN [found |-> TRUE, group |-> SubSeq(s, i + 1, LazyClose(s, i + 1) - 1)]
    ELSE SearchBlock(s, i + 1)

(* extract_agents decoding the whole text when it finds no block *)
extract_agents_WholeText(resp) ==
    LET match == SearchBlock(resp, 1) IN
    IF match.found THEN JsonLoads(match.group)
    ELSE JsonLoads(resp)

(* Agent.extract_agents *)
extract_agents(resp) ==
    LET match == SearchBlock(resp, 1) IN
    IF match.found THEN JsonLoads(match.group)
    ELSE [raised |-> FALSE, val |-> JList(<<>>)]

---------------------------------------------------------------------------
(* What stream() does with the value extract_agents returned *)

(* `if agents:` *)
Truthy(v) ==
    IF v.kind = "list" THEN v.items # <<>>
    ELSE v.kind # "null"

(* `for agent in agents`: a list yields its items, a dict its keys and a   *)
(* string its characters (strings both); a number is not iterable.         *)
Iterable(v) == v.kind \in {"list", "obj", "str"}
IterItems(v) ==
    IF v.kind = "list" THEN v.items ELSE <<JStr>>

(* agent['name'] and agent['prompt']: "" when the subscript succeeds, else *)
(* the exception it raises.                                                *)
Subscript(agent, key) ==
    IF agent.kind # "obj" THEN "TypeError"
    ELSE IF key \notin DOMAIN agent.obj THEN "KeyError"
    ELSE ""

---------------------------------------------------------------------------
(* re.search(r'<Answer>(.*?)</Answer>', agent_response, re.DOTALL) and the *)
(* answer stored for a selection                                           *)

RECURSIVE LazyAnswerClose(_, _)
LazyAnswerClose(s, j) ==
    IF j > Len(s) THEN 0
    ELSE IF s[j] = AC THEN j
    ELSE LazyAnswerClose(s, j + 1)

RECURSIVE SearchAnswer(_, _)
SearchAnswer(s, i) ==
    IF i > Len(s) THEN [found |-> FALSE]
    ELSE IF s[i] = AO /\ LazyAnswerClose(s, i + 1) # 0
         THEN [found |-> TRUE, group |-> SubSeq(s, i + 1, LazyAnswerClose(s, i + 1) - 1)]
    ELSE SearchAnswer(s, i + 1)

RECURSIVE LStrip(_)
LStrip(s) ==
    IF s # <<>> /\ Head(s) = SP THEN LStrip(Tail(s)) ELSE s

RECURSIVE RStrip(_)
RStrip(s) ==
    IF s # <<>> /\ s[Len(s)] = SP THEN RStrip(SubSeq(s, 1, Len(s) - 1)) ELSE s

(* str.strip() *)
Strip(s) == RStrip(LStrip(s))

(* ExtractAnswer with a greedy group: up to the last closing tag *)
ExtractAnswer_Greedy(resp) ==
    LET match == SearchAnswer(resp, 1) IN
    IF match.found
    THEN LET i == CHOOSE i \in DOMAIN resp :
                      /\ resp[i] = AO
                      /\ \E j \in DOMAIN resp : i < j /\ resp[j] = AC
                      /\ \A h \in 1..(i - 1) :
                             ~(resp[h] = AO /\ \E j \in DOMAIN resp : h < j /\ resp[j] = AC)
             j == CHOOSE j \in DOMAIN resp :
                      resp[j] = AC /\ \A h \in DOMAIN resp : resp[h] = AC => h <= j
         IN Strip(SubSeq(resp, i + 1, j - 1))
    ELSE resp

(* lines 192-193 *)
ExtractAnswer(resp) ==
    LET match == SearchAnswer(resp, 1) IN
    IF match.found THEN Strip(match.group) ELSE resp

---------------------------------------------------------------------------
(* The environment: endpoints, directory service, decision engine, agents  *)

Min(a, b) == IF a <= b THEN a ELSE b
SeqsUpTo(S, k) == UNION {[1..n -> S] : n \in 0..k}

(* agent_urls: None, or the list of the first k endpoints *)
UrlLists == {None} \cup {UrlList([i \in 1..k |-> i]) : k \in 0..MaxUrls}

(* What the card resolver answers for each endpoint of a fetch: the name   *)
(* on the card the endpoint serves at that time, or "fail".  In the        *)
(* profile "directory" each of the first two endpoints may fail or serve   *)
(* any name, which may change from one fetch to the next; in the other     *)
(* profiles the first endpoint serves "a" or fails.  The remaining         *)
(* endpoints serve "b".                                                    *)
ResolveOutcomes(urls) ==
    {f \in [1..Len(urls) -> Names \cup {"fail"}] :
        /\ profile # "directory" /\ Len(urls) >= 1 => f[1] # "b"
        /\ \A i \in 2..Len(urls) : i > 2 \/ profile # "directory" => f[i] = "b"}

Card(n, u) == [name |-> n, url |-> u]

(* {agent_card.name: agent_card for agent_card in agent_cards}: the last   *)
(* card of a name wins.                                                    *)
RegistryOf(cards) ==
    [n \in {cards[i].name : i \in DOMAIN cards} |->
        cards[CHOOSE i \in DOMAIN cards :
                /\ cards[i].name = n
                /\ \A j \in DOMAIN cards : cards[j].name = n => j <= i]]

(* agents_template.render(agent_cards=...): the text names the cards in    *)
(* list order.                                                             *)
AgentsTemplate(cards) == [i \in DOMAIN cards |-> cards[i].name]

(* get_agents without the early return of lines 80-81 *)
get_agents_NoGuard(urls, resolve) ==
    LET cards == [i \in DOMAIN urls.list |-> Card(resolve[i], urls.list[i])] IN
    IF \E i \in DOMAIN urls.list : resolve[i] = "fail"
    THEN [raised |-> TRUE, client |-> TRUE, calls |-> Len(urls.list)]
    ELSE [raised |-> FALSE, registry |-> RegistryOf(cards),
          prompt |-> AgentsTemplate(cards), client |-> TRUE,
          calls |-> Len(urls.list)]

(* get_agents keeping the cards that resolved when others failed *)
get_agents_Partial(urls, resolve) ==
    IF urls.none \/ urls.list = <<>>
    THEN [raised |-> FALSE, registry |-> <<>>, prompt |-> <<>>, client |-> FALSE,
          calls |-> 0]
    ELSE LET all == [i \in DOMAIN urls.list |-> Card(resolve[i], urls.list[i])]
             cards == SelectSeq(all, LAMBDA c : c.name # "fail")
         IN [raised |-> FALSE, registry |-> RegistryOf(cards),
             prompt |-> AgentsTemplate(cards), client |-> TRUE,
             calls |-> Len(urls.list)]

(* Agent.get_agents, given what the resolver answers *)
get_agents(urls, resolve) ==
    IF urls.none \/ urls.list = <<>>
    THEN [raised |-> FALSE, registry |-> <<>>, prompt |-> <<>>, client |-> FALSE,
          calls |-> 0]
    ELSE LET cards == [i \in DOMAIN urls.list |-> Card(resolve[i], urls.list[i])] IN
         IF \E i \in DOMAIN urls.list : resolve[i] = "fail"
         THEN [raised |-> TRUE, client |-> TRUE, calls |-> Len(urls.list)]
         ELSE [raised |-> FALSE, registry |-> RegistryOf(cards),
               prompt |-> AgentsTemplate(cards), client |-> TRUE,
               calls |-> Len(urls.list)]

(* The text of a JSON value made of atoms and lists of atoms *)
RECURSIVE ItemsText(_)
ItemsText(items) ==
    IF items = <<>> THEN <<>>
    ELSE IF Len(items) = 1 THEN <<Atom(items[1])>>
    ELSE <<Atom(Head(items)), COMMA>> \o ItemsText(Tail(items))

JsonText(v) ==
    IF v.kind = "list" THEN <<LB>> \o ItemsText(v.items) \o <<RB>>
    ELSE <<Atom(v)>>

Block(payload) == <<OPEN>> \o payload \o <<CLOSE>>

(* The list a decision text asks for when it names the agents l: the i-th  *)
(* selection carries the i-th prompt.                                      *)
Asks(l) == JList([i \in DOMAIN l |-> Selection(l[i], i)])

BadAtoms == {NoPrompt("a"), NoName(1), JStr}
NonLists == {JNull, JNum, JStr, NoPrompt("a")}

(* The narrow decision texts: prose, or a block followed by prose; k is    *)
(* the number of agent calls the run may still ask for.                    *)
NarrowTexts(k) ==
    {<<>>, <<TXT>>}
    \cup {Block(JsonText(Asks(l))) \o <<TXT>> : l \in SeqsUpTo(Names, Min(k, MaxSel))}

(* The wide decision texts: every short text without a payload, and a      *)
(* block around a well formed or an arbitrary payload, after prose or      *)
(* nothing, before prose, a stray closing fence, a second block or         *)
(* nothing.                                                                *)
Before == {<<>>, <<TXT>>}
SecondBlock == Block(JsonText(Asks(<<"b">>)))
After == {<<>>, <<TXT>>, <<CLOSE>>, SecondBlock}
WideAtoms == {Selection("a", 1), Selection("b", 2)} \cup BadAtoms
Payloads ==
    {JsonText(JList(l)) : l \in SeqsUpTo(WideAtoms, MaxSel)}
    \cup {JsonText(v) : v \in NonLists}
    \cup SeqsUpTo({LB, RB, COMMA, TXT, Atom(Selection("a", 1))}, MaxPayload)
WideTexts ==
    SeqsUpTo({TXT, OPEN, CLOSE, Atom(Selection("a", 1))}, MaxTextLen)
    \cup {pre \o Block(p) \o post : pre \in Before, p \in Payloads, post \in After}

(* The generator stream_llm returns: one token a chunk *)
Chunks(text) == [i \in DOMAIN text |-> <<text[i]>>]

(* Events of client.send_message_streaming *)
TextPart(f) == [kind |-> "text", text |-> f]
FilePart == [kind |-> "file"]
StatusUpdate(parts) ==
    [success |-> TRUE, result |-> "status-update", message |-> TRUE, parts |-> parts]
Fragments == {<<X>>, <<AO, SP, X, AC>>}
TokenFragments == {<<X>>, <<SP>>, <<AO>>, <<AC>>}
(* No event: the agent stream is not being read *)
NoEvent == [success |-> FALSE, result |-> "none", message |-> FALSE, parts |-> <<>>]
(* Status updates whose message starts with a text part; in the profile    *)
(* "events" the message may hold a second part.                            *)
TextEvents(F) ==
    {StatusUpdate(<<TextPart(f)>>) : f \in F}
    \cup IF profile = "events"
         THEN {StatusUpdate(<<TextPart(f), p>>) :
                   f \in F, p \in {FilePart, TextPart(<<SP>>)}}
         ELSE {}
OtherEvents ==
    { [success |-> FALSE, result |-> "error", message |-> FALSE, parts |-> <<>>],
      [success |-> TRUE, result |-> "artifact-update", message |-> FALSE, parts |-> <<>>],
      [success |-> TRUE, result |-> "status-update", message |-> FALSE, parts |-> <<>>],
      StatusUpdate(<<>>),
      StatusUpdate(<<FilePart, TextPart(<<X>>)>>) }
AgentEvents(F) == TextEvents(F) \cup OtherEvents

(* Surfaced taking the first text part wherever it stands in the message *)
Surfaced_AnyPart(ev) ==
    IF ev.success /\ ev.result = "status-update" /\ ev.message
    THEN LET texts == {i \in DOMAIN ev.parts : ev.parts[i].kind = "text"}
         IN  IF texts = {}
             THEN <<>>
             ELSE <<ev.parts[CHOOSE i \in texts : \A j \in texts : i <= j].text>>
    ELSE <<>>

(* Lines 151-159: what send_message_to_an_agent yields for one event *)
Surfaced(ev) ==
    IF ev.success /\ ev.result = "status-update"
    THEN IF ev.message /\ ev.parts # <<>> /\ ev.parts[1].kind = "text"
         THEN <<ev.parts[1].text>>
         ELSE <<>>
    ELSE <<>>

---------------------------------------------------------------------------
(* The stream() generator *)

config == <<profile, agent_urls, has_callback>>

Constructed(prof) ==
    /\ profile = prof
    /\ agent_urls \in UrlLists
    /\ has_callback \in BOOLEAN
    /\ pc = "fetch"
    /\ suspended = FALSE
    /\ round = 0
    /\ agents_registry = <<>>
    /\ agent_prompt = <<>>
    /\ llm = <<>>
    /\ response = <<>>
    /\ agents = JList(<<>>)
    /\ idx = 0
    /\ agent_response = <<>>
    /\ conn = "none"
    /\ event = NoEvent
    /\ agent_answers = <<>>
    /\ err = ""
    /\ output = <<>>
    /\ cb_calls = <<>>
    /\ fetches = <<>>
    /\ decide_calls = <<>>
    /\ dispatches = <<>>

(* The selection the `for agent in agents` loop is at *)
CurrentAgent == IterItems(agents)[idx]

(* Text fragments the agents have sent so far *)
NumFragments == Cardinality({i \in DOMAIN output : output[i].kind = "agent"})

(* The inputs the environment draws, by profile:                           *)
(*   "deep"     narrow decision texts, up to MaxDispatch agent calls, one  *)
(*              text fragment;                                             *)
(*   "stream"   narrow decision texts, no more agent calls than one list   *)
(*              holds, up to MaxFragments fragments of Fragments;          *)
(*   "texts"    a wide first decision text, then as "stream" with one      *)
(*              fragment;                                                  *)
(*   "answers"  narrow decision texts, one agent call, up to MaxRespLen    *)
(*              fragments of one token each;                               *)
(*   "live"     as "deep" with no more agent calls than there are rounds;   *)
(*   "events"   narrow decision texts, one agent call, up to MaxFragments   *)
(*              fragments, text events with one part or two;               *)
(*   "directory" as "texts" with narrow decision texts only, every         *)
(*              endpoint failing or serving any name at each fetch.        *)
DispatchBudget ==
    IF profile = "deep" THEN MaxDispatch
    ELSE IF profile \in {"answers", "events"} THEN 1
    ELSE IF profile = "live" THEN MaxRounds
    ELSE MaxSel
FragmentBudget ==
    IF profile = "answers" THEN MaxRespLen
    ELSE IF profile \in {"stream", "events"} THEN MaxFragments
    ELSE 1
FragmentSet == IF profile = "answers" THEN TokenFragments ELSE Fragments
DecisionTexts ==
    IF profile = "texts" /\ decide_calls = <<>>
    THEN WideTexts
    ELSE NarrowTexts(DispatchBudget - Len(dispatches))

(* GetAgents keeping the cards of earlier rounds that the new directory    *)
(* lacks                                                                   *)
GetAgents_Cached ==
    /\ pc = "fetch"
    /\ \E resolve \in ResolveOutcomes(agent_urls.list) :
         LET r == get_agents(agent_urls, resolve) IN
         /\ fetches' = Append(fetches, [round |-> round, resolved |-> resolve,
                                        client |-> r.client, calls |-> r.calls])
         /\ IF r.raised
            THEN /\ pc' = "raised"
                 /\ err' = "FetchError"
                 /\ UNCHANGED <<agents_registry, agent_prompt>>
            ELSE /\ pc' = "decide"
                 /\ err' = err
                 /\ agents_registry' =
                       [n \in DOMAIN agents_registry \cup DOMAIN r.registry |->
                           IF n \in DOMAIN r.registry THEN r.registry[n]
                           ELSE agents_registry[n]]
                 /\ agent_prompt' = r.prompt
    /\ suspended' = FALSE
    /\ UNCHANGED <<config, event, round, llm, response, agents, idx, agent_response,
                   conn, agent_answers, output, cb_calls, decide_calls, dispatches>>

(* Line 172: await self.get_agents() *)
GetAgents ==
    /\ pc = "fetch"
    /\ \E resolve \in ResolveOutcomes(agent_urls.list) :
         LET r == get_agents(agent_urls, resolve) IN
         /\ fetches' = Append(fetches, [round |-> round, resolved |-> resolve,
                                        client |-> r.client, calls |-> r.calls])
         /\ IF r.raised
            THEN /\ pc' = "raised"
                 /\ err' = "FetchError"
                 /\ UNCHANGED <<agents_registry, agent_prompt>>
            ELSE /\ pc' = "decide"
                 /\ err' = err
                 /\ agents_registry' = r.registry
                 /\ agent_prompt' = r.prompt
    /\ suspended' = FALSE
    /\ UNCHANGED <<config, event, round, llm, response, agents, idx, agent_response,
                   conn, agent_answers, output, cb_calls, decide_calls, dispatches>>

(* Decide handing over the answers of the previous round only *)
Decide_LastRoundOnly ==
    /\ pc = "decide"
    /\ response' = <<>>
    /\ \E text \in DecisionTexts :
         /\ llm' = Chunks(text)
         /\ decide_calls' =
               Append(decide_calls,
                      [round |-> round, agents_prompt |-> agent_prompt,
                       called_agents |->
                           LET n == Len(SelectSeq(dispatches,
                                                  LAMBDA d : d.round = round - 1))
                           IN SubSeq(agent_answers, Len(agent_answers) - n + 1,
                                     Len(agent_answers)),
                       reply |-> text])
    /\ pc' = "read_decision"
    /\ suspended' = FALSE
    /\ UNCHANGED <<config, event, round, agents_registry, agent_prompt, agents, idx,
                   agent_response, conn, agent_answers, err, output, cb_calls,
                   fetches, dispatches>>

(* Lines 173-174: response = ''; await self.decide(question, agent_prompt, *)
(* agent_answers), which renders the prompt and returns the generator.     *)
Decide ==
    /\ pc = "decide"
    /\ response' = <<>>
    /\ \E text \in DecisionTexts :
         /\ llm' = Chunks(text)
         /\ decide_calls' = Append(decide_calls,
                                   [round |-> round, agents_prompt |-> agent_prompt,
                                    called_agents |-> agent_answers, reply |-> text])
    /\ pc' = "read_decision"
    /\ suspended' = FALSE
    /\ UNCHANGED <<config, event, round, agents_registry, agent_prompt, agents, idx,
                   agent_response, conn, agent_answers, err, output, cb_calls,
                   fetches, dispatches>>

(* Lines 174-178: the next chunk of the decision generator *)
DecisionChunk ==
    /\ pc = "read_decision"
    /\ llm # <<>>
    /\ LET chunk == Head(llm) IN
         /\ response' = response \o chunk
         /\ cb_calls' = IF has_callback THEN Append(cb_calls, chunk) ELSE cb_calls
         /\ output' = Append(output, [kind |-> "decision", text |-> chunk])
    /\ llm' = Tail(llm)
    /\ suspended' = TRUE
    /\ UNCHANGED <<config, event, pc, round, agents_registry, agent_prompt, agents, idx,
                   agent_response, conn, agent_answers, err, fetches,
                   decide_calls, dispatches>>

(* Line 174: the decision generator raises (lines 53-56) *)
DecisionFail ==
    /\ pc = "read_decision"
    /\ pc' = "raised"
    /\ err' = "ProviderError"
    /\ suspended' = FALSE
    /\ UNCHANGED <<config, event, round, agents_registry, agent_prompt, llm, response,
                   agents, idx, agent_response, conn, agent_answers, output,
                   cb_calls, fetches, decide_calls, dispatches>>

(* Parse going on to the next round, instead of returning, when nothing is *)
(* selected                                                                *)
Parse_NoReturn ==
    /\ pc = "read_decision"
    /\ llm = <<>>
    /\ LET r == extract_agents(response) IN
         IF r.raised
         THEN /\ pc' = "raised"
              /\ err' = "JSONDecodeError"
              /\ UNCHANGED <<agents, idx, round>>
         ELSE /\ agents' = r.val
              /\ idx' = 0
              /\ IF ~Truthy(r.val)
                 THEN /\ round' = round + 1
                      /\ pc' = IF round + 1 < MaxRounds THEN "fetch" ELSE "done"
                      /\ err' = err
                 ELSE /\ round' = round
                      /\ IF ~Iterable(r.val)
                         THEN pc' = "raised" /\ err' = "TypeError"
                         ELSE pc' = "next_agent" /\ err' = err
    /\ suspended' = FALSE
    /\ UNCHANGED <<config, event, agents_registry, agent_prompt, llm, response,
                   agent_response, conn, agent_answers, output, cb_calls,
                   fetches, decide_calls, dispatches>>

(* Parse as soon as the text read so far holds a block, without waiting    *)
(* for the decision generator to end                                       *)
Parse_Early ==
    /\ pc = "read_decision"
    /\ llm = <<>> \/ SearchBlock(response, 1).found
    /\ LET r == extract_agents(response) IN
         IF r.raised
         THEN /\ pc' = "raised"
              /\ err' = "JSONDecodeError"
              /\ UNCHANGED <<agents, idx>>
         ELSE /\ agents' = r.val
              /\ idx' = 0
              /\ IF ~Truthy(r.val)
                 THEN pc' = "done" /\ err' = err
                 ELSE IF ~Iterable(r.val)
                      THEN pc' = "raised" /\ err' = "TypeError"
                      ELSE pc' = "next_agent" /\ err' = err
    /\ suspended' = FALSE
    /\ UNCHANGED <<config, event, round, agents_registry, agent_prompt, llm, response,
                   agent_response, conn, agent_answers, output, cb_calls,
                   fetches, decide_calls, dispatches>>

(* Lines 180-182 and 201-202: the decision generator is exhausted *)
Parse ==
    /\ pc = "read_decision"
    /\ llm = <<>>
    /\ LET r == extract_agents(response) IN
         IF r.raised
         THEN /\ pc' = "raised"
              /\ err' = "JSONDecodeError"
              /\ UNCHANGED <<agents, idx>>
         ELSE /\ agents' = r.val
              /\ idx' = 0
              /\ IF ~Truthy(r.val)
                 THEN pc' = "done" /\ err' = err
                 ELSE IF ~Iterable(r.val)
                      THEN pc' = "raised" /\ err' = "TypeError"
                      ELSE pc' = "next_agent" /\ err' = err
    /\ suspended' = FALSE
    /\ UNCHANGED <<config, event, round, agents_registry, agent_prompt, llm, response,
                   agent_response, conn, agent_answers, output, cb_calls,
                   fetches, decide_calls, dispatches>>

(* BeginAgent passing over a selection whose agent is not in the directory *)
BeginAgent_SkipUnknown ==
    /\ pc = "next_agent"
    /\ idx < Len(IterItems(agents))
    /\ idx' = idx + 1
    /\ agent_response' = <<>>
    /\ LET agent == IterItems(agents)[idx + 1] IN
         IF Subscript(agent, "name") # ""
         THEN /\ pc' = "raised"
              /\ err' = Subscript(agent, "name")
              /\ UNCHANGED <<output, suspended>>
         ELSE IF agent.obj.name \notin DOMAIN agents_registry
         THEN UNCHANGED <<pc, err, output, suspended>>
         ELSE /\ pc' = "call_agent"
              /\ err' = err
              /\ output' = Append(output, [kind |-> "begin", name |-> agent.obj.name])
              /\ suspended' = TRUE
    /\ UNCHANGED <<config, event, round, agents_registry, agent_prompt, llm, response,
                   agents, conn, agent_answers, cb_calls, fetches, decide_calls,
                   dispatches>>

(* Lines 182-185: the next selection, its lookup and its begin marker *)
BeginAgent ==
    /\ pc = "next_agent"
    /\ idx < Len(IterItems(agents))
    /\ idx' = idx + 1
    /\ agent_response' = <<>>
    /\ LET agent == IterItems(agents)[idx + 1] IN
         IF Subscript(agent, "name") # ""
         THEN /\ pc' = "raised"
              /\ err' = Subscript(agent, "name")
              /\ UNCHANGED <<output, suspended>>
         ELSE IF agent.obj.name \notin DOMAIN agents_registry
         THEN /\ pc' = "raised"
              /\ err' = "UnknownAgent"
              /\ UNCHANGED <<output, suspended>>
         ELSE /\ pc' = "call_agent"
              /\ err' = err
              /\ output' = Append(output, [kind |-> "begin", name |-> agent.obj.name])
              /\ suspended' = TRUE
    /\ UNCHANGED <<config, event, round, agents_registry, agent_prompt, llm, response,
                   agents, conn, agent_answers, cb_calls, fetches, decide_calls,
                   dispatches>>

(* Line 186 and lines 139-150: agent['prompt'], the client, the request *)
CallAgent ==
    /\ pc = "call_agent"
    /\ IF Subscript(CurrentAgent, "prompt") # ""
       THEN /\ pc' = "raised"
            /\ err' = Subscript(CurrentAgent, "prompt")
            /\ UNCHANGED <<conn, dispatches>>
       ELSE /\ pc' = "read_agent"
            /\ err' = err
            /\ conn' = "open"
            /\ dispatches' = Append(dispatches,
                                    [round |-> round,
                                     card |-> agents_registry[CurrentAgent.obj.name],
                                     message |-> CurrentAgent.obj.prompt,
                                     received |-> <<>>])
    /\ suspended' = FALSE
    /\ UNCHANGED <<config, event, round, agents_registry, agent_prompt, llm, response,
                   agents, idx, agent_response, agent_answers, output, cb_calls,
                   fetches, decide_calls>>

(* AgentText without the callback of lines 188-189 *)
AgentText_NoCallback ==
    /\ pc = "read_agent"
    /\ NumFragments < FragmentBudget
    /\ \E ev \in AgentEvents(FragmentSet) :
         /\ Surfaced(ev) # <<>>
         /\ event' = ev
         /\ LET chunk == Surfaced(ev)[1] IN
              /\ agent_response' = agent_response \o chunk
              /\ cb_calls' = cb_calls
              /\ output' = Append(output, [kind |-> "agent", text |-> chunk])
              /\ dispatches' = [dispatches EXCEPT ![Len(dispatches)].received =
                                                     Append(@, chunk)]
    /\ suspended' = TRUE
    /\ UNCHANGED <<config, pc, round, agents_registry, agent_prompt, llm, response,
                   agents, idx, conn, agent_answers, err, fetches, decide_calls>>

(* Lines 150-159 and 186-190: an event of the agent stream that yields *)
AgentText ==
    /\ pc = "read_agent"
    /\ NumFragments < FragmentBudget
    /\ \E ev \in AgentEvents(FragmentSet) :
         /\ Surfaced(ev) # <<>>
         /\ event' = ev
         /\ LET chunk == Surfaced(ev)[1] IN
              /\ agent_response' = agent_response \o chunk
              /\ cb_calls' = IF has_callback THEN Append(cb_calls, chunk) ELSE cb_calls
              /\ output' = Append(output, [kind |-> "agent", text |-> chunk])
              /\ dispatches' = [dispatches EXCEPT ![Len(dispatches)].received =
                                                     Append(@, chunk)]
    /\ suspended' = TRUE
    /\ UNCHANGED <<config, pc, round, agents_registry, agent_prompt, llm, response,
                   agents, idx, conn, agent_answers, err, fetches, decide_calls>>

(* Lines 150-159: an event of the agent stream that yields nothing *)
AgentIgnored ==
    /\ pc = "read_agent"
    /\ \E ev \in AgentEvents(FragmentSet) : Surfaced(ev) = <<>> /\ event' = ev
    /\ suspended' = FALSE
    /\ UNCHANGED <<config, pc, round, agents_registry, agent_prompt, llm, response,
                   agents, idx, agent_response, conn, agent_answers, err, output,
                   cb_calls, fetches, decide_calls, dispatches>>

(* AgentFail with the failure recorded and the agent stream taken as ended *)
AgentFail_Continue ==
    /\ pc = "read_agent"
    /\ pc' = "collect"
    /\ err' = "AgentError"
    /\ conn' = "closed"
    /\ event' = NoEvent
    /\ output' = Append(output, [kind |-> "end"])
    /\ suspended' = TRUE
    /\ UNCHANGED <<config, round, agents_registry, agent_prompt, llm, response,
                   agents, idx, agent_response, agent_answers, cb_calls,
                   fetches, decide_calls, dispatches>>

(* Line 150 raises: the client is closed by its `async with` *)
AgentFail ==
    /\ pc = "read_agent"
    /\ pc' = "raised"
    /\ err' = "AgentError"
    /\ conn' = "closed"
    /\ event' = NoEvent
    /\ suspended' = FALSE
    /\ UNCHANGED <<config, round, agents_registry, agent_prompt, llm, response,
                   agents, idx, agent_response, agent_answers, output, cb_calls,
                   fetches, decide_calls, dispatches>>

(* EndAgent without the yield of line 191 *)
EndAgent_NoMarker ==
    /\ pc = "read_agent"
    /\ pc' = "collect"
    /\ conn' = "closed"
    /\ event' = NoEvent
    /\ suspended' = FALSE
    /\ UNCHANGED <<config, round, agents_registry, agent_prompt, llm, response,
                   agents, idx, agent_response, agent_answers, err, output,
                   cb_calls, fetches, decide_calls, dispatches>>

(* The agent stream ends: the client is closed, line 191 yields the end    *)
(* marker.                                                                 *)
EndAgent ==
    /\ pc = "read_agent"
    /\ pc' = "collect"
    /\ conn' = "closed"
    /\ event' = NoEvent
    /\ output' = Append(output, [kind |-> "end"])
    /\ suspended' = TRUE
    /\ UNCHANGED <<config, round, agents_registry, agent_prompt, llm, response,
                   agents, idx, agent_response, agent_answers, err, cb_calls,
                   fetches, decide_calls, dispatches>>

(* Collect dropping the answers of the last round, which no decision call  *)
(* reads                                                                   *)
Collect_SkipLastRound ==
    /\ pc = "collect"
    /\ agent_answers' =
          IF round + 1 < MaxRounds
          THEN Append(agent_answers,
                      [name |-> CurrentAgent.obj.name,
                       prompt |-> CurrentAgent.obj.prompt,
                       answer |-> ExtractAnswer(agent_response)])
          ELSE agent_answers
    /\ pc' = "next_agent"
    /\ suspended' = FALSE
    /\ UNCHANGED <<config, event, round, agents_registry, agent_prompt, llm, response,
                   agents, idx, agent_response, conn, err, output, cb_calls,
                   fetches, decide_calls, dispatches>>

(* Collect putting the new answer in front of the list *)
Collect_Prepend ==
    /\ pc = "collect"
    /\ agent_answers' = <<[name |-> CurrentAgent.obj.name,
                           prompt |-> CurrentAgent.obj.prompt,
                           answer |-> ExtractAnswer(agent_response)]>>
                        \o agent_answers
    /\ pc' = "next_agent"
    /\ suspended' = FALSE
    /\ UNCHANGED <<config, event, round, agents_registry, agent_prompt, llm, response,
                   agents, idx, agent_response, conn, err, output, cb_calls,
                   fetches, decide_calls, dispatches>>

(* Lines 192-200: the answer of the selection is appended *)
Collect ==
    /\ pc = "collect"
    /\ agent_answers' = Append(agent_answers,
                               [name |-> CurrentAgent.obj.name,
                                prompt |-> CurrentAgent.obj.prompt,
                                answer |-> ExtractAnswer(agent_response)])
    /\ pc' = "next_agent"
    /\ suspended' = FALSE
    /\ UNCHANGED <<config, event, round, agents_registry, agent_prompt, llm, response,
                   agents, idx, agent_response, conn, err, output, cb_calls,
                   fetches, decide_calls, dispatches>>

(* EndRound with the cap off by one: `range(4)` *)
EndRound_FourRounds ==
    /\ pc = "next_agent"
    /\ idx = Len(IterItems(agents))
    /\ round' = round + 1
    /\ pc' = IF round + 1 < MaxRounds + 1 THEN "fetch" ELSE "done"
    /\ suspended' = FALSE
    /\ UNCHANGED <<config, event, agents_registry, agent_prompt, llm, response, agents,
                   idx, agent_response, conn, agent_answers, err, output,
                   cb_calls, fetches, decide_calls, dispatches>>

(* EndRound that starts the next round but has no way out of the loop once *)
(* the last round is over                                                  *)
EndRound_NoExit ==
    /\ pc = "next_agent"
    /\ idx = Len(IterItems(agents))
    /\ round + 1 < MaxRounds
    /\ round' = round + 1
    /\ pc' = "fetch"
    /\ suspended' = FALSE
    /\ UNCHANGED <<config, event, agents_registry, agent_prompt, llm, response, agents,
                   idx, agent_response, conn, agent_answers, err, output,
                   cb_calls, fetches, decide_calls, dispatches>>

(* Lines 182 and 171: the selections are exhausted, the next iteration of  *)
(* `for _ in range(3)` starts or the generator returns.                    *)
EndRound ==
    /\ pc = "next_agent"
    /\ idx = Len(IterItems(agents))
    /\ round' = round + 1
    /\ pc' = IF round + 1 < MaxRounds THEN "fetch" ELSE "done"
    /\ suspended' = FALSE
    /\ UNCHANGED <<config, event, agents_registry, agent_prompt, llm, response, agents,
                   idx, agent_response, conn, agent_answers, err, output,
                   cb_calls, fetches, decide_calls, dispatches>>

(* The caller stops consuming: the generator is closed at the yield it is  *)
(* suspended at.  Nothing in stream() closes the agent generator.          *)
Abandon ==
    /\ suspended
    /\ pc \notin {"done", "raised", "closed"}
    /\ pc' = "closed"
    /\ suspended' = FALSE
    /\ UNCHANGED <<config, event, round, agents_registry, agent_prompt, llm, response,
                   agents, idx, agent_response, conn, agent_answers, err, output,
                   cb_calls, fetches, decide_calls, dispatches>>

(* The event loop finalizes the abandoned agent generator *)
FinalizeAgent ==
    /\ pc = "closed"
    /\ conn = "open"
    /\ conn' = "closed"
    /\ UNCHANGED <<config, event, pc, suspended, round, agents_registry, agent_prompt,
                   llm, response, agents, idx, agent_response, agent_answers, err,
                   output, cb_calls, fetches, decide_calls, dispatches>>

Next ==
    \/ GetAgents
    \/ Decide
    \/ DecisionChunk
    \/ DecisionFail
    \/ Parse
    \/ BeginAgent
    \/ CallAgent
    \/ AgentText
    \/ AgentIgnored
    \/ AgentFail
    \/ EndAgent
    \/ Collect
    \/ EndRound

(* The caller reads the stream to its end *)
Init == Constructed("deep")
Spec == Init /\ [][Next]_vars

InitTexts == Constructed("texts")
SpecTexts == InitTexts /\ [][Next]_vars

InitStream == Constructed("stream")
SpecStream == InitStream /\ [][Next]_vars

InitDirectory == Constructed("directory")
SpecDirectory == InitDirectory /\ [][Next]_vars

InitEvents == Constructed("events")
SpecEvents == InitEvents /\ [][Next]_vars

InitAnswers == Constructed("answers")
SpecAnswers == InitAnswers /\ [][Next]_vars

(* A run whose consumer keeps reading and whose streams are finite: the    *)
(* generator takes a step whenever it can, and an agent stream that is     *)
(* being read ends or fails after finitely many events.  The decision      *)
(* stream `llm` is a finite sequence and a selection list is a finite      *)
(* sequence by construction.                                               *)
Fairness ==
    /\ WF_vars(Next)
    /\ WF_vars(EndAgent \/ AgentFail)

InitLive == Constructed("live")
SpecFair == InitLive /\ [][Next]_vars /\ Fairness

(* The caller may stop reading at any yield *)
NextAbandon ==
    \/ Next
    \/ Abandon
    \/ FinalizeAgent

SpecAbandon == Init /\ [][NextAbandon]_vars

---------------------------------------------------------------------------
(* Properties *)

(* The dispatches of round r (rounds count from 0), in call order *)
DispatchesOf(r) == SelectSeq(dispatches, LAMBDA d : d.round = r)

(* C1: a run makes at most three rounds, each one directory fetch and one  *)
(* decision call; once three rounds have run the generator has returned,   *)
(* with no fourth fetch or decision call, whatever the third round chose.  *)
C1_RoundCap ==
    /\ round <= 3
    /\ Len(fetches) <= 3
    /\ Len(decide_calls) <= 3
    /\ round = 3 => pc = "done" /\ Len(fetches) = 3 /\ Len(decide_calls) = 3

(* C1: a run whose three rounds each dispatched an agent has returned *)
C1_Witness ==
    /\ round = 3
    /\ pc = "done"
    /\ \A r \in 0..2 : DispatchesOf(r) # <<>>

(* A text holds a delimited block when an opening fence is followed, at    *)
(* any distance, by a closing fence.                                       *)
HasBlock(text) ==
    \E i, j \in DOMAIN text : i < j /\ text[i] = OPEN /\ text[j] = CLOSE

(* The decision text has been read to its end *)
DecisionRead == pc = "read_decision" /\ llm = <<>>

(* C2: when the decision text read to its end holds no delimited block,    *)
(* the step that parses it takes the empty list and returns in that round: *)
(* no dispatch, no marker or other output, no answer appended, the round   *)
(* index unchanged; and nothing follows a return.                          *)
C2_NoBlockTerminates ==
    [][/\ pc # "done"
       /\ (DecisionRead /\ ~HasBlock(response) /\ err' # "ProviderError") =>
             /\ pc' = "done"
             /\ err' = ""
             /\ agents' = JList(<<>>)
             /\ round' = round
             /\ UNCHANGED <<output, dispatches, agent_answers, fetches,
                            decide_calls, conn>>]_vars

(* C2: a run returned in its first round on a text whose opening fence is  *)
(* never closed                                                            *)
C2_Witness ==
    /\ pc = "done"
    /\ round = 0
    /\ ~HasBlock(response)
    /\ \E i \in DOMAIN response : response[i] = OPEN
    /\ \E i \in DOMAIN response : response[i].t = "atom"
    /\ dispatches = <<>>

(* The payload of the first delimited block of a text: what lies between   *)
(* the first opening fence that a closing fence follows and the first      *)
(* closing fence after it.                                                 *)
FirstPayload(text) ==
    LET i == CHOOSE i \in DOMAIN text :
                 /\ text[i] = OPEN
                 /\ \E j \in DOMAIN text : i < j /\ text[j] = CLOSE
                 /\ \A k \in 1..(i - 1) :
                        ~(text[k] = OPEN /\ \E j \in DOMAIN text : k < j /\ text[j] = CLOSE)
        j == CHOOSE j \in DOMAIN text :
                 /\ i < j
                 /\ text[j] = CLOSE
                 /\ \A k \in (i + 1)..(j - 1) : text[k] # CLOSE
    IN SubSeq(text, i + 1, j - 1)

(* A selection: an object with a "name" and a "prompt" field *)
IsSelection(v) == v.kind = "obj" /\ {"name", "prompt"} \subseteq DOMAIN v.obj

(* A payload that is the text of a list of selections: "[", selections     *)
(* separated by ",", "]".                                                  *)
IsSelectionList(p) ==
    /\ Len(p) >= 2
    /\ p[1] = LB
    /\ p[Len(p)] = RB
    /\ Len(p) > 2 => Len(p) % 2 = 1
    /\ \A k \in 2..(Len(p) - 1) :
          IF k % 2 = 0 THEN p[k].t = "atom" /\ IsSelection(p[k].v)
          ELSE p[k] = COMMA

(* The text the decision call of the current round returned *)
Reply == decide_calls[Len(decide_calls)].reply

(* The decision text of the current round has been read and parsed *)
Parsed ==
    /\ decide_calls # <<>>
    /\ pc \notin {"decide", "read_decision"}
    /\ err # "ProviderError"

(* C3: once a decision text whose block is malformed (present, but not the *)
(* text of a list of selections) has been parsed, the run has returned     *)
(* normally in that round with nothing dispatched.                         *)
C3_MalformedIsZeroSelections ==
    (Parsed /\ HasBlock(Reply) /\ ~IsSelectionList(FirstPayload(Reply))) =>
        /\ pc = "done"
        /\ err = ""
        /\ DispatchesOf(round) = <<>>

(* The run is working through the selections of the current round: the    *)
(* list parsed from this round's decision text, against this round's       *)
(* directory.                                                              *)
Selecting ==
    /\ Parsed
    /\ Len(decide_calls) = round + 1
    /\ agents.kind = "list"
    /\ \A k \in DOMAIN agents.items : IsSelection(agents.items[k])

(* The k-th selection names an agent the directory of the round lacks *)
Unknown(k) == agents.items[k].obj.name \notin DOMAIN agents_registry
SomeUnknown == \E k \in DOMAIN agents.items : Unknown(k)
FirstUnknown ==
    CHOOSE k \in DOMAIN agents.items :
        Unknown(k) /\ \A h \in 1..(k - 1) : ~Unknown(h)

(* Begin markers emitted since the decision text of the current round *)
RoundBegins ==
    LET last == CHOOSE i \in DOMAIN output :
                    output[i].kind = "decision"
                    /\ \A h \in DOMAIN output : output[h].kind = "decision" => h <= i
    IN Cardinality({i \in DOMAIN output : i > last /\ output[i].kind = "begin"})

(* C4 as stated: when the selection list of a round names an agent absent  *)
(* from the round's directory, no dispatch of that round is started.       *)
C4_NoDispatchInRound ==
    (Selecting /\ SomeUnknown) => DispatchesOf(round) = <<>>

(* C4, amended: when the selection list of a round names an agent absent   *)
(* from the round's directory, only selections listed before the first     *)
(* such one are dispatched; reaching it aborts the run with the lookup     *)
(* failure, with no begin marker and no dispatch for it or for any later   *)
(* selection, and the run never returns normally.                          *)
C4_AbortAtUnknownSelection ==
    (Selecting /\ SomeUnknown) =>
        /\ idx <= FirstUnknown
        /\ Len(DispatchesOf(round)) <= FirstUnknown - 1
        /\ \A k \in DOMAIN DispatchesOf(round) :
              /\ DispatchesOf(round)[k].card.name = agents.items[k].obj.name
              /\ ~Unknown(k)
        /\ RoundBegins <= FirstUnknown - 1
        /\ idx = FirstUnknown <=> (pc = "raised" /\ err = "UnknownAgent")
        /\ pc # "done"

(* C4: a run aborted by the lookup failure after a dispatch of the same    *)
(* round                                                                   *)
C4_Witness ==
    /\ Selecting
    /\ err = "UnknownAgent"
    /\ pc = "raised"
    /\ Len(DispatchesOf(round)) >= 1
    /\ FirstUnknown = 2

(* Markers in the output so far *)
Begins == Cardinality({i \in DOMAIN output : output[i].kind = "begin"})
Ends == Cardinality({i \in DOMAIN output : output[i].kind = "end"})

(* C5: a dispatch is opened, and its begin marker emitted, only when the   *)
(* decision text of the round has been consumed to its end and every       *)
(* earlier dispatch has ended; the dispatch opened is the one of the next  *)
(* selection of the list; a fragment is emitted only for the one dispatch  *)
(* that is open, and decision text only while none is.                     *)
C5_SequentialDispatch ==
    [][/\ Len(dispatches') > Len(dispatches) =>
             /\ llm = <<>>
             /\ response = Reply
             /\ conn # "open"
             /\ Ends = Len(dispatches)
             /\ Begins = Len(dispatches) + 1
             /\ LET n == Len(DispatchesOf(round)) + 1
                    new == dispatches'[Len(dispatches')]
                IN /\ dispatches' = Append(dispatches, new)
                   /\ new.round = round
                   /\ n <= Len(agents.items)
                   /\ new.card.name = agents.items[n].obj.name
                   /\ new.message = agents.items[n].obj.prompt
       /\ output' # output =>
             LET item == output'[Len(output')] IN
             /\ output' = Append(output, item)
             /\ item.kind = "decision" => Begins = Ends /\ conn # "open"
             /\ item.kind = "begin" =>
                   /\ Begins = Ends
                   /\ Ends = Len(dispatches)
                   /\ llm = <<>>
                   /\ response = Reply
             /\ item.kind = "agent" =>
                   /\ conn = "open"
                   /\ Begins = Len(dispatches)
                   /\ Ends = Len(dispatches) - 1
                   /\ dispatches'[Len(dispatches)].received =
                         Append(dispatches[Len(dispatches)].received, item.text)
             /\ item.kind = "end" =>
                   /\ conn = "open"
                   /\ Begins = Ends + 1]_vars

(* C5: both dispatches of a two-selection round have sent text *)
C5_Witness ==
    /\ Len(DispatchesOf(round)) = 2
    /\ \A k \in 1..2 : DispatchesOf(round)[k].received # <<>>
    /\ DispatchesOf(round)[1].message # DispatchesOf(round)[2].message
    /\ round = 0

(* The entries of the answer list are those of the dispatches made so far, *)
(* in the order the dispatches were made, which is round by round; only    *)
(* the latest dispatch may still lack its entry.                           *)
InDispatchOrder(answers, calls) ==
    /\ Len(answers) <= Len(calls)
    /\ Len(calls) <= Len(answers) + 1
    /\ \A k \in DOMAIN answers :
          /\ answers[k].name = calls[k].card.name
          /\ answers[k].prompt = calls[k].message
    /\ \A h, k \in DOMAIN calls : h < k => calls[h].round <= calls[k].round

(* C6: every step leaves the answer list unchanged or appends one entry at *)
(* its end, and the entries stay in dispatch order, round after round;     *)
(* also on the steps that abort the run.                                   *)
C6_AppendOnly ==
    [][/\ \/ agent_answers' = agent_answers
          \/ /\ Len(agent_answers') = Len(agent_answers) + 1
             /\ SubSeq(agent_answers', 1, Len(agent_answers)) = agent_answers
       /\ InDispatchOrder(agent_answers', dispatches')]_vars

(* C6: a run aborted by an agent failure in its third round, holding the   *)
(* answers of two earlier rounds                                           *)
C6_Witness ==
    /\ pc = "raised"
    /\ err = "AgentError"
    /\ round = 2
    /\ Len(agent_answers) >= 2
    /\ dispatches[1].round # dispatches[2].round
    /\ agent_answers[1] # agent_answers[2]

(* The selections a decision text asks for: the objects of its first       *)
(* block, in list order                                                    *)
SelectionsOf(text) ==
    IF HasBlock(text)
    THEN LET atoms == SelectSeq(FirstPayload(text), LAMBDA tok : tok.t = "atom")
         IN [k \in DOMAIN atoms |-> atoms[k].v.obj]
    ELSE <<>>

(* Name and prompt of each entry of the answer list *)
Asked(answers) ==
    [k \in DOMAIN answers |-> [name |-> answers[k].name, prompt |-> answers[k].prompt]]

(* C7: when three rounds have run, each with its selections dispatched     *)
(* successfully, the generator has returned after three fetches and three  *)
(* decision calls, and the answer list holds one entry per selection of    *)
(* the three decision texts, named and prompted as the selections are, in  *)
(* round order and then list order.                                        *)
C7_ThreeRoundsOfAnswers ==
    round = 3 =>
        /\ pc = "done"
        /\ err = ""
        /\ Len(decide_calls) = 3
        /\ \A r \in 1..3 : SelectionsOf(decide_calls[r].reply) # <<>>
        /\ Asked(agent_answers) =
              SelectionsOf(decide_calls[1].reply)
              \o SelectionsOf(decide_calls[2].reply)
              \o SelectionsOf(decide_calls[3].reply)

(* C7: three rounds, one of them with two selections *)
C7_Witness ==
    /\ round = 3
    /\ pc = "done"
    /\ Len(agent_answers) = 4
    /\ Len(SelectionsOf(decide_calls[3].reply)) = 2
    /\ agent_answers[4].answer # <<>>

(* The agent was constructed without endpoints *)
NoUrls == agent_urls.list = <<>>

(* The output holds decision text only *)
OnlyDecisionText == \A i \in DOMAIN output : output[i].kind = "decision"

Positions(kind) ==
    SelectSeq([i \in DOMAIN output |-> i], LAMBDA i : output[i].kind = kind)

(* The output strictly between two positions *)
Between(i, j) == SubSeq(output, i + 1, j - 1)

(* C9: the k-th begin marker names the agent of the k-th dispatch; for a   *)
(* dispatch that has completed, what lies between its begin marker and its *)
(* end marker is exactly the fragments received from the agent, in arrival *)
(* order; markers alternate, begin first; an answer is in the list only    *)
(* when the end marker of its dispatch is in the output; a run that has    *)
(* returned has as many end markers as begin markers.                      *)
C9_MarkedDispatches ==
    LET B == Positions("begin")
        E == Positions("end")
    IN /\ Len(B) - Len(E) \in {0, 1}
       /\ Len(B) - Len(dispatches) \in {0, 1}
       /\ \A k \in DOMAIN dispatches : output[B[k]].name = dispatches[k].card.name
       /\ \A k \in DOMAIN E :
             /\ B[k] < E[k]
             /\ k < Len(B) => E[k] < B[k + 1]
             /\ Between(B[k], E[k]) =
                   [i \in DOMAIN dispatches[k].received |->
                       [kind |-> "agent", text |-> dispatches[k].received[i]]]
       /\ Len(agent_answers) <= Len(E)
       /\ pc = "done" => Len(B) = Len(E) /\ Len(agent_answers) = Len(E)

(* C9: a run that returned after two completed dispatches, one of which    *)
(* sent two fragments                                                      *)
C9_Witness ==
    /\ pc = "done"
    /\ Ends >= 2
    /\ \E k \in DOMAIN dispatches : Len(dispatches[k].received) = 2
    /\ Len(agent_answers) = Ends

(* The concatenation of the fragments an agent sent *)
RECURSIVE Concat(_)
Concat(fragments) ==
    IF fragments = <<>> THEN <<>>
    ELSE Head(fragments) \o Concat(Tail(fragments))

(* A text holds an answer region when an opening tag is followed, at any   *)
(* distance, by a closing tag.                                             *)
HasAnswer(text) ==
    \E i, j \in DOMAIN text : i < j /\ text[i] = AO /\ text[j] = AC

(* The inner text of the first answer region: from the first opening tag   *)
(* that a closing tag follows to the first closing tag after it.           *)
InnerAnswer(text) ==
    LET i == CHOOSE i \in DOMAIN text :
                 /\ text[i] = AO
                 /\ \E j \in DOMAIN text : i < j /\ text[j] = AC
                 /\ \A h \in 1..(i - 1) :
                        ~(text[h] = AO /\ \E j \in DOMAIN text : h < j /\ text[j] = AC)
        j == CHOOSE j \in DOMAIN text :
                 /\ i < j
                 /\ text[j] = AC
                 /\ \A h \in (i + 1)..(j - 1) : text[h] # AC
    IN SubSeq(text, i + 1, j - 1)

(* A text without its leading and trailing whitespace *)
Trimmed(text) ==
    LET solid == {i \in DOMAIN text : text[i] # SP} IN
    IF solid = {} THEN <<>>
    ELSE SubSeq(text,
                CHOOSE i \in solid : \A h \in solid : i <= h,
                CHOOSE i \in solid : \A h \in solid : h <= i)

(* C10 as stated: the answer stored for a dispatch is the inner text of    *)
(* the first answer region of the concatenated response when there is one, *)
(* and the concatenated response otherwise.                                *)
C10_AnswerIsInnerText ==
    \A k \in DOMAIN agent_answers :
        LET resp == Concat(dispatches[k].received) IN
        agent_answers[k].answer =
            IF HasAnswer(resp) THEN InnerAnswer(resp) ELSE resp

(* C10, amended: the answer stored for a dispatch is the inner text of the *)
(* first answer region of the concatenated response, without its leading   *)
(* and trailing whitespace, when there is such a region, and the           *)
(* concatenated response verbatim otherwise.                               *)
C10_AnswerIsTrimmedInnerText ==
    \A k \in DOMAIN agent_answers :
        LET resp == Concat(dispatches[k].received) IN
        agent_answers[k].answer =
            IF HasAnswer(resp) THEN Trimmed(InnerAnswer(resp)) ELSE resp

(* C10: an answer was stored for a response whose answer region starts     *)
(* with whitespace                                                         *)
C10_Witness ==
    /\ agent_answers # <<>>
    /\ Concat(dispatches[1].received) = <<AO, SP, X, AC>>
    /\ agent_answers[1].answer = <<X>>

(* C11: the step on which a dispatch fails ends the run: it yields nothing *)
(* and appends no answer, so the failed dispatch, the latest one, has      *)
(* neither an end marker nor an answer, whatever it had sent; and a run    *)
(* that has failed takes no further step: no output, no dispatch, no       *)
(* answer, no round.                                                       *)
C11_DispatchFailureIsFatal ==
    [][/\ err # "AgentError"
       /\ err' = "AgentError" =>
             /\ pc = "read_agent"
             /\ pc' = "raised"
             /\ UNCHANGED <<output, agent_answers, dispatches, round, fetches,
                            decide_calls>>
             /\ Len(agent_answers') = Len(dispatches') - 1
             /\ Len(Positions("end")) = Len(dispatches) - 1]_vars

(* C11: a dispatch failed after the agent had sent text, with a selection  *)
(* of the round still to come                                              *)
C11_Witness ==
    /\ err = "AgentError"
    /\ pc = "raised"
    /\ dispatches[Len(dispatches)].received # <<>>
    /\ idx < Len(agents.items)
    /\ round = 0
    /\ agent_answers = <<>>

(* The latest fetch *)
LastFetch == fetches[Len(fetches)]

(* Some endpoint of a fetch did not resolve *)
SomeFailed(fetch) == \E i \in DOMAIN fetch.resolved : fetch.resolved[i] = "fail"

(* C12: a fetch in which any endpoint fails to resolve yields no directory *)
(* and ends the run on that step, before the decision call of the round    *)
(* and with no output; a run ended so takes no further step.               *)
C12_FetchFailureAborts ==
    [][/\ err # "FetchError"
       /\ (Len(fetches') > Len(fetches) /\ SomeFailed(fetches'[Len(fetches')])) =>
             /\ pc' = "raised"
             /\ err' = "FetchError"
             /\ Len(decide_calls) = round
             /\ UNCHANGED <<agents_registry, agent_prompt, output, decide_calls,
                            dispatches, agent_answers, round>>]_vars

(* C12: in the second round one endpoint of two fails to resolve, after    *)
(* the other                                                               *)
C12_Witness ==
    /\ err = "FetchError"
    /\ pc = "raised"
    /\ round = 1
    /\ Len(decide_calls) = 1
    /\ LastFetch.resolved = <<"a", "fail">>

(* The run has left stream(): it returned, raised, or was closed by the    *)
(* caller.                                                                 *)
Exited == pc \in {"done", "raised", "closed"}

(* C13: on every way out of stream(), the caller closing the generator at  *)
(* any yield included, no agent connection is left open.                   *)
C13_ReleasedOnEveryExit == Exited => conn # "open"

(* The decision text of the current round has been parsed into `agents` *)
ParsedThisRound == Parsed /\ Len(decide_calls) = round + 1 /\ err # "JSONDecodeError"

(* C14: when the first block of a decision text is the text of a list of N *)
(* selections, the parsed value is the list of exactly those N selections  *)
(* in source order, whatever follows the block, a second block included.   *)
C14_FirstBlockOnly ==
    (ParsedThisRound /\ HasBlock(Reply) /\ IsSelectionList(FirstPayload(Reply))) =>
        /\ agents.kind = "list"
        /\ Len(agents.items) = Len(SelectionsOf(Reply))
        /\ \A k \in DOMAIN agents.items :
              /\ agents.items[k].kind = "obj"
              /\ agents.items[k].obj = SelectionsOf(Reply)[k]

(* C14: a first block of two selections, followed by a second block *)
C14_Witness ==
    /\ ParsedThisRound
    /\ Reply = Block(JsonText(JList(<<Selection("b", 2), Selection("a", 1)>>)))
               \o SecondBlock
    /\ agents = JList(<<Selection("b", 2), Selection("a", 1)>>)
    /\ pc = "next_agent"

(* C15: with agent_urls None or empty, every fetch opens no client, makes  *)
(* no network call and raises nothing, and the directory it returns is the *)
(* empty mapping with the empty text.                                      *)
C15_EmptyUrlsNoNetwork ==
    NoUrls =>
        /\ err # "FetchError"
        /\ \A k \in DOMAIN fetches :
              /\ ~fetches[k].client
              /\ fetches[k].calls = 0
        /\ fetches # <<>> =>
              /\ DOMAIN agents_registry = {}
              /\ agent_prompt = <<>>
              /\ pc # "fetch"

(* C15: a run constructed with agent_urls None has fetched and returned *)
C15_Witness ==
    /\ agent_urls.none
    /\ Len(fetches) = 1
    /\ pc = "done"
    /\ output # <<>>

(* The names on the cards a fetch resolved *)
DirectoryOf(fetch) == {fetch.resolved[i] : i \in DOMAIN fetch.resolved}

(* The card a fetch holds for a name: the one of the last endpoint that    *)
(* served the name.                                                        *)
CardOf(fetch, n) ==
    LET i == CHOOSE i \in DOMAIN fetch.resolved :
                 /\ fetch.resolved[i] = n
                 /\ \A h \in DOMAIN fetch.resolved : fetch.resolved[h] = n => h <= i
    IN [name |-> n, url |-> agent_urls.list[i]]

(* C16: round k makes the k-th fetch, one only, before its decision call;  *)
(* every dispatch goes to the card that the fetch of its own round holds   *)
(* for the selected name; a selection whose name the fetch of its round    *)
(* lacks is not dispatched and fails the lookup, and only such a selection *)
(* does, whatever the directories of earlier rounds held.                  *)
C16_DirectoryPerRound ==
    /\ \A k \in DOMAIN fetches : fetches[k].round = k - 1
    /\ \A k \in DOMAIN decide_calls : decide_calls[k].round = k - 1
    /\ Len(fetches) - Len(decide_calls) \in {0, 1}
    /\ Len(fetches) = Len(decide_calls) + 1 => pc \in {"decide", "raised"}
    /\ pc \in {"decide", "read_decision"} => Len(fetches) = round + 1
    /\ \A k \in DOMAIN dispatches :
          LET fetch == fetches[dispatches[k].round + 1] IN
          /\ dispatches[k].card.name \in DirectoryOf(fetch)
          /\ dispatches[k].card = CardOf(fetch, dispatches[k].card.name)
    /\ pc \in {"call_agent", "read_agent", "collect"} =>
          CurrentAgent.obj.name \in DirectoryOf(LastFetch)
    /\ err = "UnknownAgent" =>
          /\ CurrentAgent.obj.name \notin DirectoryOf(LastFetch)
          /\ Len(DispatchesOf(round)) = idx - 1

(* C16: the second round selects an agent that the first round dispatched  *)
(* and that the second fetch no longer lists                               *)
C16_Witness ==
    /\ err = "UnknownAgent"
    /\ pc = "raised"
    /\ round = 1
    /\ Len(agent_urls.list) = 2
    /\ dispatches # <<>>
    /\ dispatches[1].card.name = CurrentAgent.obj.name
    /\ CurrentAgent.obj.name \in DirectoryOf(fetches[1])
    /\ CurrentAgent.obj.name \notin DirectoryOf(fetches[2])

(* The number of dispatches made in the rounds before round r (rounds      *)
(* count from 0)                                                           *)
DispatchedBefore(r) == Len(SelectSeq(dispatches, LAMBDA d : d.round < r))

(* C17: the decision call of a round was given exactly the answers of the  *)
(* dispatches of the earlier rounds, in the order they were appended: none *)
(* in the first round, and never an answer of its own or a later round.    *)
C17_DecisionSeesPriorAnswers ==
    \A k \in DOMAIN decide_calls :
        LET seen == decide_calls[k].called_agents IN
        /\ Len(seen) = DispatchedBefore(k - 1)
        /\ Len(seen) <= Len(agent_answers)
        /\ seen = SubSeq(agent_answers, 1, Len(seen))
        /\ k = 1 => seen = <<>>

(* C17: the third decision call saw the two answers of the first round and *)
(* the one of the second, and the third round added a fourth               *)
C17_Witness ==
    /\ Len(decide_calls) = 3
    /\ Len(decide_calls[2].called_agents) = 2
    /\ Len(decide_calls[3].called_agents) = 3
    /\ Len(agent_answers) = 4
    /\ agent_answers[1] # agent_answers[2]

(***************************************************************************)
(* C18: the fragments surfaced for one agent call are the texts of the     *)
(* stream's text-content updates in arrival order; every other event       *)
(* yields nothing and neither ends nor fails the stream.                   *)
(***************************************************************************)

(* The step handles one event of the agent stream *)
Handles == pc = "read_agent" /\ event' # NoEvent

(* The step appends one agent fragment of this text to the output and to   *)
(* what the current call received                                          *)
Yields(text) ==
    /\ output' = Append(output, [kind |-> "agent", text |-> text])
    /\ dispatches' = [dispatches EXCEPT ![Len(dispatches)].received = Append(@, text)]
    /\ agent_response' = agent_response \o text

(* The step surfaces nothing *)
YieldsNothing ==
    /\ output' = output
    /\ dispatches' = dispatches
    /\ agent_response' = agent_response
    /\ cb_calls' = cb_calls

(* The agent stream is still being read after the step *)
StreamGoesOn == pc' = "read_agent" /\ conn' = "open" /\ err' = err

(* A successful status update whose message holds text in some part *)
HasText(ev) ==
    /\ ev.success /\ ev.result = "status-update" /\ ev.message
    /\ \E i \in DOMAIN ev.parts : ev.parts[i].kind = "text"

(* A successful status update whose message starts with a text part *)
StartsWithText(ev) ==
    /\ ev.success /\ ev.result = "status-update" /\ ev.message
    /\ ev.parts # <<>> /\ ev.parts[1].kind = "text"

(* C18 as stated: every status update that carries text yields one         *)
(* fragment, every other event yields nothing and the stream goes on.      *)
C18_TextUpdatesSurfaced ==
    [][Handles =>
         /\ StreamGoesOn
         /\ IF HasText(event')
            THEN /\ Len(output') = Len(output) + 1
                 /\ output'[Len(output')].kind = "agent"
            ELSE YieldsNothing]_vars

(* C18 as amended: a status update whose message starts with a text part   *)
(* yields the text of that first part as one fragment, appended in arrival *)
(* order; every other event, a status update with text in a later part     *)
(* only included, yields nothing; in both cases the stream goes on.        *)
C18_FirstPartSurfaced ==
    [][Handles =>
         /\ StreamGoesOn
         /\ IF StartsWithText(event')
            THEN Yields(event'.parts[1].text)
            ELSE YieldsNothing]_vars

(* A call that surfaced a fragment, then ignored an update whose text is   *)
(* in the second part, and is still reading                                *)
C18_Witness ==
    /\ pc = "read_agent" /\ conn = "open"
    /\ event = StatusUpdate(<<FilePart, TextPart(<<X>>)>>)
    /\ dispatches # <<>>
    /\ Len(dispatches[Len(dispatches)].received) >= 1

(***************************************************************************)
(* C19: with finite decision streams, agent streams and selection lists,   *)
(* every run of stream() ends, normally or by a fatal error, and once it   *)
(* has ended nothing changes any more: no output chunk, no dispatch, no    *)
(* other state.                                                            *)
(***************************************************************************)

(* stream() has returned or raised *)
Ended == pc \in {"done", "raised"}

C19_EndsForGood ==
    /\ <>Ended
    /\ [][Ended => vars' = vars]_vars

(* A run that ended by the round cap, an agent called in every round *)
C19_Witness ==
    /\ pc = "done"
    /\ round = MaxRounds
    /\ \A r \in 0..(MaxRounds - 1) : DispatchesOf(r) # <<>>

(***************************************************************************)
(* C20: a token_stream_callback that is set is invoked once for every text *)
(* fragment, decision or agent, with that fragment, right before it is     *)
(* yielded and in the order of the yields; never for a begin or end        *)
(* marker.                                                                 *)
(***************************************************************************)

(* The texts of the text fragments among these chunks, in order *)
RECURSIVE FragmentTexts(_)
FragmentTexts(chunks) ==
    IF chunks = <<>>
    THEN <<>>
    ELSE IF Head(chunks).kind \in {"decision", "agent"}
         THEN <<Head(chunks).text>> \o FragmentTexts(Tail(chunks))
         ELSE FragmentTexts(Tail(chunks))

(* The step yields a text fragment *)
YieldsFragment ==
    /\ Len(output') = Len(output) + 1
    /\ output'[Len(output')].kind \in {"decision", "agent"}

C20_CallbackPerFragment ==
    /\ [](has_callback => cb_calls = FragmentTexts(output))
    /\ [][has_callback =>
            IF YieldsFragment
            THEN cb_calls' = Append(cb_calls, output'[Len(output')].text)
            ELSE cb_calls' = cb_calls]_vars

(* A finished run with a callback that saw decision and agent fragments,   *)
(* markers among the chunks                                                *)
C20_Witness ==
    /\ has_callback
    /\ pc = "done"
    /\ \E i, j \in DOMAIN output :
          /\ i < j
          /\ output[i].kind = "begin"
          /\ output[j].kind = "end"
          /\ \E k \in (i + 1)..(j - 1) : output[k].kind = "agent"
    /\ \E i \in DOMAIN output : output[i].kind = "decision"
    /\ Len(cb_calls) < Len(output)

=============================================================================
